---- MODULE Spec2Model ----
(***************************************************************************)
(* uni-app: the event translation and frame-loop layer of the two          *)
(* backends, native_app.rs (glutin) and web_app.rs (stdweb).               *)
(*                                                                         *)
(* One App is modelled.  Init chooses the build (backend, target_os) and   *)
(* the AppConfig; the host (the glutin event loop or the browser) is the   *)
(* environment and delivers raw inputs one at a time.  The closure handed  *)
(* to the host and the application callback it invokes are followed by pc. *)
(***************************************************************************)
EXTENDS Integers, Sequences, FiniteSets, TLC

\* ------------------------------------------------------------------ bounds
\* raw inputs the host delivers between two returns of the callback
MaxPending == 2
\* dropped-file entities created during a run
MaxCells == 2
\* translatable window events the native host delivers in one loop iteration
MaxBatch == 2

VARIABLES
  backend,      \* "native" | "web": which of the two files is compiled in
  target_os,    \* cfg!(target_os): "macos" | "linux"
  config,       \* AppConfig fields read by the model
  window,       \* native WindowContext variant: "Normal" | "Headless"; web: "Canvas"
  ctx_size,     \* size tracked by the native backend context (glwindow.resize)
  exiting,      \* App.exiting
  modifiers,    \* App.modifiers
  events,       \* App.events, the canonical event queue
  dropped_files,\* web App.dropped_files: sequence of cell ids
  buffer_state, \* web: the BufferState cell of every File created, by cell id
  control_flow, \* native: *control_flow of the glutin loop: "Poll" | "Exit"
  raf,          \* web: outstanding request_animation_frame registrations
  pc,           \* "init" | "wait" | "callback" | "poll" | "dead"
  proc,         \* "alive" | "exit0" | "panic" | "returned"
  host_mods,    \* native: the host's real modifier-key state
  drained,      \* native: translatable raw events delivered in this loop iteration
  pending_raw,  \* raw inputs delivered since the last callback returned, each with
                \* the host's modifier keys and the context size at its arrival
  stale,        \* events at the head of the queue that a finished callback already saw
  shown,        \* the last finished callback was given a non-empty queue
  presented,    \* the closure invocation in progress or last finished presented the surface
  exit_called,  \* the application called App::exit() in the callback in progress
  got,          \* get_dropped_file() in the callback in progress: 0 = None, else the cell id
  monitor,      \* native: the video modes of the primary monitor, in enumeration order
  scale_factor, \* native: the scale factor the OS reports, in hundredths
  fs_mode,      \* native: the video mode the window is fullscreen in, or NoMode
  swapped,      \* native: parity of the buffer swaps done on the window surface
  hidpi,        \* native: what the last hidpi_factor() returned, in hundredths; 0 = not called
  readers,      \* web: the FileReader made for every dropped file, by cell id
  returned,     \* web: the cells get_dropped_file() has returned so far
  popped_pending \* web: the cells that were Empty when get_dropped_file() returned them

vars == <<backend, target_os, config, window, ctx_size, exiting, modifiers, events,
          dropped_files, buffer_state, control_flow, raf, pc, proc, host_mods,
          drained, pending_raw, stale, shown, presented, exit_called, got,
          monitor, scale_factor, fs_mode, swapped, hidpi, readers, returned, popped_pending>>

\* the parts of the state only a few operations touch
Machine == <<monitor, scale_factor>>
Surface == <<fs_mode, swapped, hidpi>>
Bridge == <<readers, returned, popped_pending>>

\* ------------------------------------------------------------ input sets
Mods(s, a, c, l) == [shift |-> s, alt |-> a, ctrl |-> c, logo |-> l]
NoMods == Mods(FALSE, FALSE, FALSE, FALSE)
ModStates == { NoMods, Mods(TRUE, FALSE, FALSE, FALSE), Mods(FALSE, TRUE, FALSE, FALSE),
               Mods(FALSE, FALSE, TRUE, FALSE), Mods(FALSE, FALSE, FALSE, TRUE) }

Button(k, v) == [kind |-> k, val |-> v]
NativeButtons == { Button("Left", 0), Button("Middle", 0), Button("Right", 0),
                   Button("Other", 1), Button("Other", 3) }
WebButtons == { "Left", "Wheel", "Right", "Button4", "Button5" }
ElementStates == { "Pressed", "Released" }
\* KeyboardInput { virtual_keycode, scancode }
KeyInputs == { [vk |-> "Q", sc |-> 16], [vk |-> "F24", sc |-> 194], [vk |-> "None", sc |-> 0] }
Sizes == { <<0, 0>>, <<0, 600>>, <<800, 600>>, <<1024, 768>> }
InitSize == <<800, 600>>
WebSizes == { <<1024, 768>> }
\* getBoundingClientRect().left/top of the canvas, read once by setup_listener
CanvasOrigin == <<5, 7>>
ClientPositions == { <<15, 27>> }
\* KeyboardEvent { key, code } as the browser reports them
\* (key labels are sequences of characters; those used here are ASCII, so the
\* byte length String::len() reports is their number of characters)
WebKeys == { [key |-> <<"q">>, code |-> "KeyQ"], [key |-> <<"T", "a", "b">>, code |-> "Tab"] }
\* characters outside ASCII that take two bytes in UTF-8: e with acute accent
TwoByteChars == { "e-acute" }
\* the keys of a keyboard with accented letters
AccentKeys == WebKeys \cup { [key |-> <<"e-acute">>, code |-> "Digit2"] }
WebFlags == { [shift |-> FALSE, alt |-> FALSE, ctrl |-> FALSE],
              [shift |-> TRUE, alt |-> FALSE, ctrl |-> TRUE] }
FileBytes == { << >>, <<7>>, <<8, 9>> }
BridgeFile == "a.txt"
BridgeDrops == { <<BridgeFile>> }
FileNames == { "a.txt", "b.bin" }
\* the files of one drop event: distinct files, in the order the browser lists them
FileLists == { fs \in UNION { [1..n -> FileNames] : n \in 0..Cardinality(FileNames) } :
                 \A i, j \in DOMAIN fs : i # j => fs[i] # fs[j] }

\* raw glutin events
NativeWindowEvents ==
       { [type |-> "MouseInput", state |-> s, button |-> b] : s \in ElementStates, b \in NativeButtons }
  \cup { [type |-> "CursorMoved", x |-> 10, y |-> 20] }
  \cup { [type |-> "KeyboardInput", state |-> s, input |-> k] : s \in ElementStates, k \in KeyInputs }
  \cup { [type |-> "ReceivedCharacter", c |-> "a"] }
  \cup { [type |-> "Resized", size |-> z] : z \in Sizes }
  \cup { [type |-> "CloseRequested"] }
  \cup { [type |-> "ModifiersChanged", mods |-> m] : m \in ModStates }
  \cup { [type |-> "Focused"] }
IsWindowEvent(e) == e.type \notin { "MainEventsCleared", "LoopDestroyed" }

\* ------------------------------------------------------- canonical events
MouseDown(b) == [type |-> "MouseDown", button |-> b]
MouseUp(b) == [type |-> "MouseUp", button |-> b]
MousePos(x, y) == [type |-> "MousePos", x |-> x, y |-> y]
KeyDown(k, c, s, a, ct) == [type |-> "KeyDown", key |-> k, code |-> c, shift |-> s, alt |-> a, ctrl |-> ct]
KeyUp(k, c, s, a, ct) == [type |-> "KeyUp", key |-> k, code |-> c, shift |-> s, alt |-> a, ctrl |-> ct]
CharEvent(c) == [type |-> "CharEvent", char |-> c]
Resized(w, h) == [type |-> "Resized", width |-> w, height |-> h]
CloseRequested == [type |-> "CloseRequested"]
FileDropped(n) == [type |-> "FileDropped", name |-> n]

None == [type |-> "None"]
NoMode == << >>

\* Vec::push and Vec::clear on the queue
push_front(q, e) == << e >> \o q
push(q, e) == Append(q, e)
clear_nothing(q) == q
clear(q) == << >>

\* ============================================================ native_app.rs

\* keycode tables of mod native_keycode
translate_virtual_key(k) == CASE k = "Q" -> "q" [] OTHER -> ""
translate_scan_code(sc) == CASE sc = 16 -> "KeyQ" [] OTHER -> ""

\* format!("{:?}", k) prints the enum tag
get_virtual_key(input) ==
  IF input.vk # "None"
  THEN LET s == translate_virtual_key(input.vk) IN IF s = "" THEN input.vk ELSE s
  ELSE ""

get_scan_code(input) == translate_scan_code(input.sc)

button_num(button) ==
  CASE button.kind = "Left" -> 0
    [] button.kind = "Middle" -> 1
    [] button.kind = "Right" -> 2
    [] button.kind = "Other" -> button.val

translate_event(e, mods) ==
  IF IsWindowEvent(e)
  THEN CASE e.type = "MouseInput" ->
              IF e.state = "Pressed" THEN MouseDown(button_num(e.button))
                                     ELSE MouseUp(button_num(e.button))
         [] e.type = "CursorMoved" -> MousePos(e.x, e.y)
         [] e.type = "KeyboardInput" ->
              IF e.state = "Pressed"
              THEN KeyDown(get_virtual_key(e.input), get_scan_code(e.input),
                           mods.shift, mods.alt, mods.ctrl)
              ELSE KeyUp(get_virtual_key(e.input), get_scan_code(e.input),
                         mods.shift, mods.alt, mods.ctrl)
         [] e.type = "ReceivedCharacter" -> CharEvent(e.c)
         [] e.type = "Resized" -> Resized(e.size[1], e.size[2])
         [] e.type = "CloseRequested" -> CloseRequested
         [] OTHER -> None
  ELSE None

\* App::new: headless > (fullscreen | windowed), both of the latter a Normal context
new_window(cfg) == IF cfg.headless THEN "Headless" ELSE "Normal"

\* find_fullscreen_mode: the loop over monitor.video_modes(), a mode being <<width, height>>
RECURSIVE find_mode_loop(_, _, _, _)
find_mode_loop(modes, cfg, video_mode, smallest) ==
  IF modes = << >> THEN video_mode
  ELSE LET size == Head(modes)
           surf == size[1] * size[2]
       IN IF size[1] >= cfg.size[1] /\ size[2] >= cfg.size[2] /\ surf < smallest
          THEN find_mode_loop(Tail(modes), cfg, size, surf)
          ELSE find_mode_loop(Tail(modes), cfg, video_mode, smallest)

RECURSIVE find_first_loop(_, _)
find_first_loop(modes, cfg) ==
  IF modes = << >> THEN NoMode
  ELSE IF Head(modes)[1] >= cfg.size[1] /\ Head(modes)[2] >= cfg.size[2]
       THEN Head(modes) ELSE find_first_loop(Tail(modes), cfg)

find_first_mode(modes, cfg) == find_first_loop(modes, cfg)
find_fullscreen_mode(modes, cfg) == find_mode_loop(modes, cfg, NoMode, 40000 * 40000)

\* App::new: the video mode the window is made fullscreen in, NoMode for a
\* headless context and for a windowed one
new_fullscreen(cfg, modes) ==
  IF cfg.headless THEN NoMode
  ELSE IF cfg.fullscreen THEN find_fullscreen_mode(modes, cfg)
  ELSE NoMode

\* App::new: the size the context is built with; scale is in hundredths
new_size(cfg, modes, scale) ==
  IF cfg.headless THEN cfg.size
  ELSE IF new_fullscreen(cfg, modes) # NoMode THEN new_fullscreen(cfg, modes)
  ELSE << (cfg.size[1] * scale) \div 100, (cfg.size[2] * scale) \div 100 >>

\* WindowContext::hidpi_factor, in hundredths
hidpi_factor(win, scale) == IF win = "Normal" THEN scale ELSE 100

\* App::set_fullscreen(b): the fullscreen mode of the window after the call
set_fullscreen_any(win, cfg, modes, fs, b) ==
  IF b
  THEN IF find_fullscreen_mode(modes, cfg) # NoMode THEN find_fullscreen_mode(modes, cfg) ELSE fs
  ELSE NoMode
set_fullscreen(win, cfg, modes, fs, b) ==
  IF win = "Normal"
  THEN IF b
       THEN IF find_fullscreen_mode(modes, cfg) # NoMode
            THEN find_fullscreen_mode(modes, cfg) ELSE fs
       ELSE NoMode
  ELSE fs

\* handle_event, the Resized arm: whether the context is resized
resize_always(size) == TRUE
resize_guard(size) == size[1] # 0 /\ size[2] # 0

handle_event_resize(e, win, size) ==
  IF IsWindowEvent(e) /\ e.type = "Resized" /\ resize_guard(e.size) /\ win = "Normal"
  THEN e.size
  ELSE size

\* handle_event: the value of `running` it returns
handle_event_running(e, mods, intercept, os) ==
  CASE e.type = "CloseRequested" -> intercept
    [] e.type = "KeyboardInput" ->
         ~(os = "macos" /\ e.input.vk # "None" /\ e.input.vk = "Q" /\ mods.logo)
    [] OTHER -> TRUE

\* handle_event, line 333: the translation, if any, is pushed
handle_event_queue(e, mods, q) ==
  LET evt == translate_event(e, mods) IN IF evt # None THEN push(q, evt) ELSE q

\* WindowContext::swap_buffers: what it can return, and what it does to the surface
swap_buffers_outcomes(win) == IF win = "Normal" THEN { "Ok", "Err" } ELSE { "Ok" }
swap_buffers(win, outcome, sw) == IF win = "Normal" /\ outcome = "Ok" THEN ~sw ELSE sw

\* what the host's modifier keys are once it has produced raw event e
HostModsAfter(e, hm) == IF e.type = "ModifiersChanged" THEN e.mods ELSE hm

Translatable(e) == translate_event(e, NoMods) # None

\* the closure given to events_loop.run, up to the call of the callback
NativeClosure(e) ==
  LET running == handle_event_running(e, modifiers, config.intercept_close_request, target_os)
  IN /\ ctx_size' = handle_event_resize(e, window, ctx_size)
     /\ events' = handle_event_queue(e, modifiers, events)
     /\ IF running
        THEN pc' = "callback" /\ control_flow' = control_flow
        ELSE pc' = "wait" /\ control_flow' = "Exit"
     /\ host_mods' = HostModsAfter(e, host_mods)
     /\ pending_raw' = Append(pending_raw, [raw |-> e, mods |-> host_mods', size |-> ctx_size])
     /\ presented' = FALSE
     /\ UNCHANGED <<backend, target_os, config, window, exiting, modifiers, dropped_files,
                    buffer_state, raf, stale, shown, exit_called, got>>
     /\ UNCHANGED <<Machine, Surface, Bridge>>

\* App::run: the loop is started
NativeRun ==
  /\ backend = "native" /\ pc = "init"
  /\ pc' = "wait"
  /\ UNCHANGED <<backend, target_os, config, window, ctx_size, exiting, modifiers, events,
                 dropped_files, buffer_state, control_flow, raf, proc, host_mods,
                 drained, pending_raw, stale, shown, presented, exit_called, got>>
  /\ UNCHANGED <<Machine, Surface, Bridge>>

\* the host delivers a window event of the current loop iteration
NativeWindowEvent(e) ==
  /\ backend = "native" /\ pc = "wait" /\ proc = "alive"
  /\ Len(pending_raw) < MaxPending
  /\ Translatable(e) => drained < MaxBatch
  /\ drained' = IF Translatable(e) THEN drained + 1 ELSE drained
  /\ proc' = proc
  /\ NativeClosure(e)

\* the host has delivered every pending event of this loop iteration
NativeMainEventsCleared ==
  /\ backend = "native" /\ pc = "wait" /\ proc = "alive"
  /\ drained' = 0
  /\ proc' = proc
  /\ NativeClosure([type |-> "MainEventsCleared"])

\* ControlFlow::Exit: the host sends LoopDestroyed, its last event, and stops
NativeLoopDestroyed ==
  /\ backend = "native" /\ pc = "wait" /\ proc = "alive"
  /\ control_flow = "Exit"
  /\ drained' = drained
  /\ proc' = "teardown"
  /\ NativeClosure([type |-> "LoopDestroyed"])

\* App::run, lines 350-355: the callback has returned
NativeCallbackReturn(swap) ==
  /\ backend = "native" /\ pc = "callback"
  /\ swap \in swap_buffers_outcomes(window)
  /\ events' = clear(events)
  /\ stale' = Len(events')
  /\ shown' = (events # << >>)
  /\ pending_raw' = << >>
  /\ exit_called' = FALSE
  /\ got' = 0
  /\ IF swap = "Err"
     THEN /\ proc' = "panic" /\ pc' = "dead"
          /\ UNCHANGED <<presented, control_flow>>
     ELSE /\ presented' = TRUE
          /\ control_flow' = IF exiting THEN "Exit" ELSE control_flow
          /\ IF proc = "teardown"
             THEN proc' = "returned" /\ pc' = "dead"
             ELSE proc' = proc /\ pc' = "wait"
  /\ swapped' = swap_buffers(window, swap, swapped)
  /\ UNCHANGED <<backend, target_os, config, window, ctx_size, exiting, modifiers,
                 dropped_files, buffer_state, raf, host_mods, drained>>
  /\ UNCHANGED <<Machine, fs_mode, hidpi, Bridge>>

\* App::exit(), called by the application from its callback
NativeExit ==
  /\ backend = "native" /\ pc = "callback"
  /\ proc' = "exit0" /\ pc' = "dead"
  /\ exit_called' = TRUE
  /\ UNCHANGED <<backend, target_os, config, window, ctx_size, exiting, modifiers, events,
                 dropped_files, buffer_state, control_flow, raf, host_mods,
                 drained, pending_raw, stale, shown, presented, got>>
  /\ UNCHANGED <<Machine, Surface, Bridge>>

\* App::set_fullscreen(b), called from the callback
NativeSetFullscreen(b) ==
  /\ backend = "native" /\ pc = "callback" /\ proc = "alive"
  /\ fs_mode' = set_fullscreen(window, config, monitor, fs_mode, b)
  /\ UNCHANGED <<backend, target_os, config, window, ctx_size, exiting, modifiers, events,
                 dropped_files, buffer_state, control_flow, raf, pc, proc, host_mods,
                 drained, pending_raw, stale, shown, presented, exit_called, got>>
  /\ UNCHANGED <<Machine, swapped, hidpi, Bridge>>

\* App::hidpi_factor(), called from the callback
NativeHidpiFactor ==
  /\ backend = "native" /\ pc = "callback" /\ proc = "alive"
  /\ hidpi' = hidpi_factor(window, scale_factor)
  /\ UNCHANGED <<backend, target_os, config, window, ctx_size, exiting, modifiers, events,
                 dropped_files, buffer_state, control_flow, raf, pc, proc, host_mods,
                 drained, pending_raw, stale, shown, presented, exit_called, got>>
  /\ UNCHANGED <<Machine, fs_mode, swapped, Bridge>>

\* =============================================================== web_app.rs

Empty == [tag |-> "Empty"]

web_button_num(button) ==
  CASE button = "Left" -> 0
    [] button = "Wheel" -> 1
    [] button = "Right" -> 2
    [] button = "Button4" -> 3
    [] button = "Button5" -> 4

\* map_event!: the listener pushes one AppEvent
map_event_twice(q, ev) == push(push(q, ev), ev)
map_event(q, ev) == push(q, ev)

\* the two KeyUpEvent listeners, in the order setup_listener registers them
\* String::len: the length of a key label in bytes of UTF-8, the label being
\* the sequence of its characters
len_utf8(ch) == IF ch \in TwoByteChars THEN 2 ELSE 1
RECURSIVE len(_)
len(key) == IF key = << >> THEN 0 ELSE len_utf8(Head(key)) + len(Tail(key))

\* the first KeyUpEvent listener: e.key().len() == 1, then e.key().chars().next()
keyup_char_listener(q, key) == IF len(key) = 1 THEN push(q, CharEvent(Head(key))) ELSE q
keyup_listener(q, k, f) == map_event(q, KeyUp(k.key, k.code, f.shift, f.alt, f.ctrl))

\* the js! block of the DragDropEvent listener: a FileReader is made for file
\* fname and its onload, onerror and onabort handlers are set; no read method
\* of the reader is called, so it stays in readyState EMPTY. A reader is
\* [readyState, result, event]: result is << >> until a read gave bytes, event
\* is the completion event it has fired
new_reader(fname) == [readyState |-> "EMPTY", result |-> << >>, event |-> "none"]

\* BufferState::Buffer and BufferState::Error
Buffer(data) == [tag |-> "Buffer", data |-> data]
Error(msg) == [tag |-> "Error", msg |-> msg]

\* the closure on_get_buffer: the state of its cell after it ran on the bytes read
on_get_buffer_any(state, data) == Buffer(data)
on_get_buffer(state, data) == IF Len(data) > 0 THEN Buffer(data) ELSE state

\* the closure on_error: the state of its cell after it ran on the string s
on_error(state, s) == Error(<<"Fail to read file from web ", s>>)

\* the strings reader.onerror and reader.onabort build from the file name
onerror_msg(fname) == <<"Error while reading ", fname, " : ">>
onabort_msg(fname) == <<"Reading of ", fname, " aborted : ">>

\* every closure writes the cell it cloned a handle of, made per file in the loop
shared_cell(bs, cell, state) == [c \in DOMAIN bs |-> state]
own_cell(bs, cell, state) == [bs EXCEPT ![cell] = state]

\* on_error_js: what it leaves of the reader that failed; it starts no new read
on_error_js_retry(rs, cell) == [rs EXCEPT ![cell].readyState = "LOADING"]
on_error_js(rs, cell) == rs

\* the DragDropEvent listener: the body of its loop for one file.
\* st = [events, dropped_files, buffer_state, readers]
drop_one(st, name) ==
  LET cell == Len(st.buffer_state) + 1
  IN [events |-> push(st.events, FileDropped(name)),
      dropped_files |-> Append(st.dropped_files, cell),
      buffer_state |-> Append(st.buffer_state, Empty),
      readers |-> Append(st.readers, new_reader(name))]

RECURSIVE drop_loop(_, _)
drop_loop(st, files) ==
  IF files = << >> THEN st ELSE drop_loop(drop_one(st, Head(files)), Tail(files))

drop_first_only(st, files) ==
  IF files = << >> THEN st
  ELSE LET all == drop_loop(st, files)
       IN [all EXCEPT !.events = push(st.events, FileDropped(Head(files)))]

drop_listener(st, files) == drop_loop(st, files)

\* the canonical events the listeners push for one raw browser event
WebTranslation(r) ==
  CASE r.type = "mousedown" -> << MouseDown(web_button_num(r.button)) >>
    [] r.type = "mouseup" -> << MouseUp(web_button_num(r.button)) >>
    [] r.type = "mousemove" ->
         << MousePos(r.pos[1] - CanvasOrigin[1], r.pos[2] - CanvasOrigin[2]) >>
    [] r.type = "keydown" ->
         << KeyDown(r.k.key, r.k.code, r.flags.shift, r.flags.alt, r.flags.ctrl) >>
    [] r.type = "keyup" -> keyup_listener(keyup_char_listener(<< >>, r.k.key), r.k, r.flags)
    [] r.type = "resize" -> << Resized(r.size[1], r.size[2]) >>
    [] r.type = "drop" -> [i \in 1..Len(r.files) |-> FileDropped(r.files[i])]

\* the modifier keys the browser reports with a raw event
WebHostMods(r) ==
  IF r.type \in { "keydown", "keyup" }
  THEN Mods(r.flags.shift, r.flags.alt, r.flags.ctrl, FALSE)
  ELSE NoMods

\* the browser runs a listener only between two turns of its event loop
WebCanFire == backend = "web" /\ pc \in { "init", "wait" } /\ Len(pending_raw) < MaxPending

WebGhost(r) ==
  pending_raw' = Append(pending_raw, [raw |-> r, mods |-> WebHostMods(r), size |-> ctx_size])

WebFrame == <<backend, target_os, config, window, ctx_size, exiting, modifiers, control_flow,
              raf, pc, proc, host_mods, drained, stale, shown, presented, exit_called, got,
              Machine, Surface, returned, popped_pending>>

\* the listeners of setup_listener, one action per browser event type
WebMouseDown(b) ==
  /\ WebCanFire
  /\ events' = map_event(events, MouseDown(web_button_num(b)))
  /\ WebGhost([type |-> "mousedown", button |-> b])
  /\ UNCHANGED <<WebFrame, dropped_files, buffer_state, readers>>

WebMouseUp(b) ==
  /\ WebCanFire
  /\ events' = map_event(events, MouseUp(web_button_num(b)))
  /\ WebGhost([type |-> "mouseup", button |-> b])
  /\ UNCHANGED <<WebFrame, dropped_files, buffer_state, readers>>

WebMouseMove(p) ==
  /\ WebCanFire
  /\ events' = map_event(events, MousePos(p[1] - CanvasOrigin[1], p[2] - CanvasOrigin[2]))
  /\ WebGhost([type |-> "mousemove", pos |-> p])
  /\ UNCHANGED <<WebFrame, dropped_files, buffer_state, readers>>

WebKeyDown(k, f) ==
  /\ WebCanFire
  /\ events' = map_event(events, KeyDown(k.key, k.code, f.shift, f.alt, f.ctrl))
  /\ WebGhost([type |-> "keydown", k |-> k, flags |-> f])
  /\ UNCHANGED <<WebFrame, dropped_files, buffer_state, readers>>

WebKeyUp(k, f) ==
  /\ WebCanFire
  /\ events' = keyup_listener(keyup_char_listener(events, k.key), k, f)
  /\ WebGhost([type |-> "keyup", k |-> k, flags |-> f])
  /\ UNCHANGED <<WebFrame, dropped_files, buffer_state, readers>>

WebResize(z) ==
  /\ WebCanFire
  /\ events' = map_event(events, Resized(z[1], z[2]))
  /\ WebGhost([type |-> "resize", size |-> z])
  /\ UNCHANGED <<WebFrame, dropped_files, buffer_state, readers>>

WebDrop(files) ==
  /\ WebCanFire
  /\ Len(buffer_state) + Len(files) <= MaxCells
  /\ LET st == drop_listener([events |-> events, dropped_files |-> dropped_files,
                              buffer_state |-> buffer_state, readers |-> readers], files)
     IN /\ events' = st.events
        /\ dropped_files' = st.dropped_files
        /\ buffer_state' = st.buffer_state
        /\ readers' = st.readers
  /\ WebGhost([type |-> "drop", files |-> files])
  /\ UNCHANGED WebFrame

\* run_loop: one request_animation_frame call; raf counts the requests registered
run_loop_stop(requests) == requests
run_loop(requests) == requests + 1

\* App::run: run_loop registers the first animation frame
WebRun ==
  /\ backend = "web" /\ pc = "init"
  /\ raf' = run_loop(raf)
  /\ pc' = "wait"
  /\ UNCHANGED <<backend, target_os, config, window, ctx_size, exiting, modifiers, events,
                 dropped_files, buffer_state, control_flow, proc, host_mods,
                 drained, pending_raw, stale, shown, presented, exit_called, got>>
  /\ UNCHANGED <<Machine, Surface, Bridge>>

\* run_loop: the browser runs the registered animation-frame closure
WebTick ==
  /\ backend = "web" /\ pc = "wait" /\ raf > 0
  /\ raf' = raf - 1
  /\ pc' = "callback"
  /\ UNCHANGED <<backend, target_os, config, window, ctx_size, exiting, modifiers, events,
                 dropped_files, buffer_state, control_flow, proc, host_mods,
                 drained, pending_raw, stale, shown, presented, exit_called, got>>
  /\ UNCHANGED <<Machine, Surface, Bridge>>

\* run_loop, lines 333-334: the callback has returned
WebCallbackReturn ==
  /\ backend = "web" /\ pc = "callback"
  /\ events' = clear(events)
  /\ stale' = Len(events')
  /\ shown' = (events # << >>)
  /\ pending_raw' = << >>
  /\ exit_called' = FALSE
  /\ got' = 0
  /\ raf' = run_loop(raf)
  /\ pc' = "wait"
  /\ UNCHANGED <<backend, target_os, config, window, ctx_size, exiting, modifiers,
                 dropped_files, buffer_state, control_flow, proc, host_mods,
                 drained, presented>>
  /\ UNCHANGED <<Machine, Surface, Bridge>>

\* poll_events, called by an application that drives its own loop
WebPollEvents ==
  /\ backend = "web" /\ pc = "init"
  /\ pc' = "poll"
  /\ UNCHANGED <<backend, target_os, config, window, ctx_size, exiting, modifiers, events,
                 dropped_files, buffer_state, control_flow, raf, proc, host_mods,
                 drained, pending_raw, stale, shown, presented, exit_called, got>>
  /\ UNCHANGED <<Machine, Surface, Bridge>>

WebPollReturn ==
  /\ backend = "web" /\ pc = "poll"
  /\ events' = clear(events)
  /\ stale' = Len(events')
  /\ shown' = (events # << >>)
  /\ pending_raw' = << >>
  /\ exit_called' = FALSE
  /\ got' = 0
  /\ pc' = "init"
  /\ UNCHANGED <<backend, target_os, config, window, ctx_size, exiting, modifiers,
                 dropped_files, buffer_state, control_flow, raf, proc, host_mods,
                 drained, presented>>
  /\ UNCHANGED <<Machine, Surface, Bridge>>

\* App::exit() {} called from the callback
WebExit ==
  /\ backend = "web" /\ pc \in { "callback", "poll" }
  /\ exit_called' = TRUE
  /\ UNCHANGED <<backend, target_os, config, window, ctx_size, exiting, modifiers, events,
                 dropped_files, buffer_state, control_flow, raf, pc, proc, host_mods,
                 drained, pending_raw, stale, shown, presented, got>>
  /\ UNCHANGED <<Machine, Surface, Bridge>>

\* Vec::pop on dropped_files: the File returned (0 for None) and what is left
pop_front(df) ==
  IF df = << >> THEN [file |-> 0, rest |-> df] ELSE [file |-> df[1], rest |-> Tail(df)]
pop(df) ==
  IF df = << >> THEN [file |-> 0, rest |-> df]
  ELSE [file |-> df[Len(df)], rest |-> SubSeq(df, 1, Len(df) - 1)]

\* get_dropped_file(), called from the callback
WebGetDroppedFile ==
  /\ backend = "web" /\ pc \in { "callback", "poll" }
  /\ LET r == pop(dropped_files)
     IN /\ got' = r.file
        /\ dropped_files' = r.rest
        /\ returned' = IF r.file = 0 THEN returned ELSE returned \cup { r.file }
        /\ popped_pending' = IF r.file # 0 /\ buffer_state[r.file] = Empty
                              THEN popped_pending \cup { r.file } ELSE popped_pending
  /\ UNCHANGED <<backend, target_os, config, window, ctx_size, exiting, modifiers, events,
                 buffer_state, control_flow, raf, pc, proc, host_mods,
                 drained, pending_raw, stale, shown, presented, exit_called>>
  /\ UNCHANGED <<Machine, Surface, readers>>

\* the host side of a file read. Completions run between frames, like listeners
ReaderCanFire(cell) ==
  /\ backend = "web" /\ pc \in { "init", "wait" }
  /\ cell \in DOMAIN readers
  /\ readers[cell].readyState = "LOADING"

BridgeFrame == <<backend, target_os, config, window, ctx_size, exiting, modifiers, events,
                 dropped_files, control_flow, raf, pc, proc, host_mods, drained, pending_raw,
                 stale, shown, presented, exit_called, got,
                 Machine, Surface, returned, popped_pending>>

\* a read of the dropped file is started on its reader
ProviderStartsRead(cell) ==
  /\ backend = "web" /\ pc \in { "init", "wait" }
  /\ cell \in DOMAIN readers
  /\ readers[cell].readyState = "EMPTY"
  /\ readers' = [readers EXCEPT ![cell].readyState = "LOADING"]
  /\ UNCHANGED <<BridgeFrame, buffer_state>>

\* reader.onload, fired by the host when the read succeeded with bytes data
ReaderLoad(cell, data) ==
  /\ ReaderCanFire(cell)
  /\ buffer_state' = own_cell(buffer_state, cell, on_get_buffer(buffer_state[cell], data))
  /\ readers' = [readers EXCEPT ![cell] =
                   [readyState |-> "DONE", result |-> data, event |-> "load"]]
  /\ UNCHANGED BridgeFrame

\* reader.onerror, fired by the host when the read failed
ReaderError(cell, fname) ==
  /\ ReaderCanFire(cell)
  /\ buffer_state' = own_cell(buffer_state, cell,
                              on_error(buffer_state[cell], onerror_msg(fname)))
  /\ readers' = on_error_js([readers EXCEPT ![cell] =
                   [readyState |-> "DONE", result |-> << >>, event |-> "error"]], cell)
  /\ UNCHANGED BridgeFrame

\* reader.onabort, fired by the host when the read was aborted
ReaderAbort(cell, fname) ==
  /\ ReaderCanFire(cell)
  /\ buffer_state' = own_cell(buffer_state, cell,
                              on_error(buffer_state[cell], onabort_msg(fname)))
  /\ readers' = on_error_js([readers EXCEPT ![cell] =
                   [readyState |-> "DONE", result |-> << >>, event |-> "abort"]], cell)
  /\ UNCHANGED BridgeFrame

\* ==================================================================== system

Configs == [headless : BOOLEAN, intercept_close_request : BOOLEAN,
            fullscreen : { FALSE }, size : { InitSize }]
DefaultMonitor == << <<1024, 768>>, <<800, 600>> >>

\* App::new of either backend, for the configuration, monitor and scale chosen
App_new ==
  /\ window = IF backend = "native" THEN new_window(config) ELSE "Canvas"
  /\ fs_mode = IF backend = "native" THEN new_fullscreen(config, monitor) ELSE NoMode
  /\ ctx_size = IF backend = "native" THEN new_size(config, monitor, scale_factor)
                ELSE InitSize
  /\ exiting = FALSE
  /\ modifiers = NoMods
  /\ events = << >>
  /\ dropped_files = << >>
  /\ buffer_state = << >>
  /\ control_flow = "Poll"
  /\ raf = 0
  /\ pc = "init"
  /\ proc = "alive"
  /\ host_mods = NoMods
  /\ drained = 0
  /\ pending_raw = << >>
  /\ shown = FALSE
  /\ stale = 0
  /\ presented = FALSE
  /\ exit_called = FALSE
  /\ got = 0
  /\ swapped = FALSE
  /\ hidpi = 0
  /\ readers = << >>
  /\ returned = { }
  /\ popped_pending = { }

Init ==
  /\ backend \in { "native", "web" }
  /\ target_os \in { "macos", "linux" }
  /\ backend = "web" => target_os = "linux"
  /\ config \in Configs
  /\ backend = "web" => ~config.headless /\ ~config.intercept_close_request
  /\ monitor = IF backend = "native" THEN DefaultMonitor ELSE << >>
  /\ scale_factor = 100
  /\ App_new

Next ==
  \/ NativeRun
  \/ \E e \in NativeWindowEvents : NativeWindowEvent(e)
  \/ NativeMainEventsCleared
  \/ NativeLoopDestroyed
  \/ \E swap \in { "Ok", "Err" } : NativeCallbackReturn(swap)
  \/ NativeExit
  \/ \E b \in BOOLEAN : NativeSetFullscreen(b)
  \/ NativeHidpiFactor
  \/ \E b \in WebButtons : WebMouseDown(b)
  \/ \E b \in WebButtons : WebMouseUp(b)
  \/ \E p \in ClientPositions : WebMouseMove(p)
  \/ \E k \in WebKeys, f \in WebFlags : WebKeyDown(k, f)
  \/ \E k \in WebKeys, f \in WebFlags : WebKeyUp(k, f)
  \/ \E z \in WebSizes : WebResize(z)
  \/ \E files \in FileLists : WebDrop(files)
  \/ WebRun
  \/ WebTick
  \/ WebCallbackReturn
  \/ WebPollEvents
  \/ WebPollReturn
  \/ WebExit
  \/ WebGetDroppedFile

Spec == Init /\ [][Next]_vars

\* the native window alone, over more configurations, monitors and scale factors
ConfigSizes == { <<800, 600>>, <<1920, 1080>> }
MonitorModes == { << <<1920, 1080>>, <<2560, 1440>>, <<1920, 1200>> >>,
                  << <<2560, 1440>>, <<1920, 1200>>, <<1920, 1080>> >>,
                  << <<1280, 720>>, <<1024, 768>> >>,
                  << <<1600, 1200>>, <<1920, 1000>> >>,
                  << >> }
ScaleFactors == { 100, 200 }
CtxConfigs == [headless : BOOLEAN, intercept_close_request : { FALSE },
               fullscreen : BOOLEAN, size : ConfigSizes]
CtxEvents == { [type |-> "Resized", size |-> <<1024, 768>>], [type |-> "CloseRequested"] }

InitCtx ==
  /\ backend = "native"
  /\ target_os = "linux"
  /\ config \in CtxConfigs
  /\ monitor \in MonitorModes
  /\ scale_factor \in ScaleFactors
  /\ App_new

NextCtx ==
  \/ NativeRun
  \/ \E e \in CtxEvents : NativeWindowEvent(e)
  \/ NativeMainEventsCleared
  \/ NativeLoopDestroyed
  \/ \E swap \in { "Ok", "Err" } : NativeCallbackReturn(swap)
  \/ NativeExit
  \/ \E b \in BOOLEAN : NativeSetFullscreen(b)
  \/ NativeHidpiFactor

SpecCtx == InitCtx /\ [][NextCtx]_vars

\* App::new of the web build
InitBridge == Init /\ backend = "web"

\* the web run loop alone, with a host that keeps delivering the ticks it was
\* asked for and an application callback that returns
NextCoop ==
  \/ WebRun
  \/ WebTick
  \/ WebCallbackReturn
  \/ WebExit
  \/ WebGetDroppedFile
  \/ WebMouseDown("Left")
  \/ \E k \in WebKeys : WebKeyUp(k, NoMods)
  \/ \E files \in BridgeDrops : WebDrop(files)

SpecCoop ==
  /\ InitBridge
  /\ [][NextCoop]_vars
  /\ WF_vars(WebTick)
  /\ WF_vars(WebCallbackReturn)

\* the web keyboard listeners alone, on a keyboard with accented letters
NextKeys ==
  \/ WebRun
  \/ WebTick
  \/ WebCallbackReturn
  \/ \E k \in AccentKeys, f \in WebFlags : WebKeyDown(k, f)
  \/ \E k \in AccentKeys, f \in WebFlags : WebKeyUp(k, f)

SpecKeys == InitBridge /\ [][NextKeys]_vars

\* the web file bridge alone, with a provider that reads the dropped files:
\* every drop is of the one file BridgeFile, so each reader's fname is BridgeFile
NextBridge ==
  \/ \E files \in BridgeDrops : WebDrop(files)
  \/ WebRun
  \/ WebTick
  \/ WebCallbackReturn
  \/ WebGetDroppedFile
  \/ \E cell \in 1..MaxCells : ProviderStartsRead(cell)
  \/ \E cell \in 1..MaxCells, data \in FileBytes : ReaderLoad(cell, data)
  \/ \E cell \in 1..MaxCells : ReaderError(cell, BridgeFile)
  \/ \E cell \in 1..MaxCells : ReaderAbort(cell, BridgeFile)

SpecBridge == InitBridge /\ [][NextBridge]_vars

\* ==================================================================== claims

InCallback == pc \in { "callback", "poll" }
LastRaw == pending_raw[Len(pending_raw)]

\* the canonical events one delivered raw input translates to
CanonicalOf(r) ==
  IF backend = "native"
  THEN LET evt == translate_event(r.raw, modifiers) IN IF evt = None THEN << >> ELSE << evt >>
  ELSE WebTranslation(r.raw)

RECURSIVE CanonicalSeq(_)
CanonicalSeq(rs) == IF rs = << >> THEN << >> ELSE CanonicalOf(Head(rs)) \o CanonicalSeq(Tail(rs))

\* C1: in both strategies the queue is emptied only by the step in which the
\* callback returns, it is untouched while the callback runs, it is empty once
\* the callback has returned, and no event a finished callback was given is
\* still in the queue when the next callback starts.
C1_QueueClearedAfterCallback ==
  [][ /\ (Len(events') < Len(events) => InCallback /\ ~InCallback')
      /\ (InCallback /\ InCallback' => events' = events)
      /\ (InCallback /\ ~InCallback' /\ proc' # "exit0" => events' = << >>)
      /\ (InCallback' => stale' = 0) ]_vars

C1_Witness == InCallback /\ shown /\ events # << >> /\ stale = 0

\* C2: on the native backend, when the callback runs after the host has
\* delivered two translatable raw events in the current loop iteration, both
\* are in the queue.
C2_BatchSeenByOneCallback ==
  (backend = "native" /\ pc = "callback" /\ drained = 2) => Len(events) = 2

\* C3: on the native backend the queue never holds a Resized event of size (0,0).
C3_ZeroResizeSuppressed ==
  backend = "native" =>
    \A i \in DOMAIN events : events[i] # Resized(0, 0)

\* C4: once handle_event has processed a Resized raw event, the context's
\* tracked size is what it was before if the event's size is (0,0), and is the
\* event's size if both dimensions are nonzero and the context is a window.
C4_ZeroResizeKeepsTrackedSize ==
  (backend = "native" /\ pending_raw # << >> /\ LastRaw.raw.type = "Resized") =>
     /\ LastRaw.raw.size = <<0, 0>> => ctx_size = LastRaw.size
     /\ (LastRaw.raw.size[1] # 0 /\ LastRaw.raw.size[2] # 0 /\ window = "Normal")
           => ctx_size = LastRaw.raw.size

C4_Witness ==
  /\ backend = "native" /\ window = "Normal" /\ pc = "callback"
  /\ LastRaw.raw.type = "Resized" /\ LastRaw.raw.size = <<0, 0>>
  /\ ctx_size = <<1024, 768>>

\* C5: the shift, alt and ctrl flags of the KeyDown/KeyUp event pushed for a raw
\* key event equal the host's modifier keys at the moment of that raw event.
C5_KeyFlagsAreHostModifiers ==
  (pending_raw # << >> /\ events # << >>
     /\ LastRaw.raw.type \in { "KeyboardInput", "keydown", "keyup" }) =>
       LET ev == events[Len(events)]
       IN /\ ev.type \in { "KeyDown", "KeyUp" }
          /\ ev.shift = LastRaw.mods.shift
          /\ ev.alt = LastRaw.mods.alt
          /\ ev.ctrl = LastRaw.mods.ctrl

\* C6: on the native backend, once the loop was told to exit (a CloseRequested
\* that is not intercepted), no later step enters the callback.
C6_NoCallbackAfterClose ==
  [][ (backend = "native" /\ control_flow = "Exit") => pc' # "callback" ]_vars

\* C7: on the native backend, when the application has asked to exit from its
\* callback the exit flag is set, and the process only ends with the frame
\* finished: queue cleared and surface presented.
C7_ExitFlagStopsAtFrameEnd ==
  (backend = "native" /\ exit_called) =>
     /\ exiting
     /\ pc = "dead" => (events = << >> /\ presented)

\* C8: on macOS, once the host has reported key Q while the logo modifier is
\* held, the loop has been told to exit.
C8_CmdQStopsLoop ==
  (backend = "native" /\ target_os = "macos" /\ pending_raw # << >>
     /\ LastRaw.raw.type = "KeyboardInput" /\ LastRaw.raw.input.vk = "Q"
     /\ LastRaw.mods.logo) => control_flow = "Exit"

\* C9: the queue is, at every moment, the canonical translations of the raw
\* inputs delivered since the last callback returned, in their arrival order,
\* nothing reordered, duplicated or lost.
C9_QueueInArrivalOrder == events = CanonicalSeq(pending_raw)

C9_Witness ==
  /\ InCallback /\ Len(pending_raw) = 2 /\ Len(events) >= 2
  /\ events[1] # events[2]

\* C10: the step in which the browser delivers a drop event appends, for every
\* file in order, one FileDropped{name} event, one cell in state Empty and one
\* entry of dropped_files for that cell, and nothing else, before any callback
\* runs; no other step creates a cell.
C10_DropCreatesEntityAndEvent ==
  [][ IF Len(pending_raw') = Len(pending_raw) + 1 /\ pending_raw'[Len(pending_raw')].raw.type = "drop"
      THEN LET files == pending_raw'[Len(pending_raw')].raw.files
               n == Len(files)
           IN /\ Len(events') = Len(events) + n
              /\ Len(buffer_state') = Len(buffer_state) + n
              /\ Len(dropped_files') = Len(dropped_files) + n
              /\ SubSeq(events', 1, Len(events)) = events
              /\ SubSeq(dropped_files', 1, Len(dropped_files)) = dropped_files
              /\ \A i \in 1..n :
                   /\ events'[Len(events) + i] = FileDropped(files[i])
                   /\ buffer_state'[Len(buffer_state) + i] = Empty
                   /\ dropped_files'[Len(dropped_files) + i] = Len(buffer_state) + i
              /\ pc' = pc
      ELSE Len(buffer_state') = Len(buffer_state) ]_vars

C10_Witness ==
  /\ backend = "web" /\ pc = "callback"
  /\ Len(events) = 2 /\ events[1] = FileDropped("a.txt") /\ events[2] = FileDropped("b.bin")
  /\ got = 2 /\ buffer_state[got] = Empty

\* ---------------------------------------------------------------- file bridge

Cells == DOMAIN buffer_state
Completes(c) == readers[c].readyState = "LOADING" /\ readers'[c].readyState = "DONE"
MaxOf(S) == CHOOSE x \in S : \A y \in S : y <= x

\* C11: every dropped file whose entity is still Pending (Empty) has a read in
\* flight, so that the entity can leave Pending.
C11_PendingHasReadInFlight ==
  \A c \in Cells : buffer_state[c] = Empty => readers[c].readyState = "LOADING"

C17_ExtraButtonsFromThree ==
  (pending_raw # << >> /\ events # << >>
     /\ LastRaw.raw.type \in { "MouseInput", "mousedown", "mouseup" }) =>
       LET id == events[Len(events)].button
           b == LastRaw.raw.button
       IN IF backend = "native"
          THEN CASE b.kind = "Left" -> id = 0
                 [] b.kind = "Middle" -> id = 1
                 [] b.kind = "Right" -> id = 2
                 [] OTHER -> id >= 3
          ELSE CASE b = "Left" -> id = 0
                 [] b = "Wheel" -> id = 1
                 [] b = "Right" -> id = 2
                 [] OTHER -> id >= 3

\* the events the step that delivers one raw input appends to the queue
RawDelivered == Len(pending_raw') = Len(pending_raw) + 1
NewRaw == pending_raw'[Len(pending_raw')].raw
Added == Len(events') - Len(events)

\* C18, as claimed: one raw input appends at most one event, except a web key
\* release, which may append a CharEvent and then a KeyUp; a web drop, like
\* every other raw input, appends at most one event.
C18_AtMostOneEventPerRaw ==
  [][ RawDelivered =>
        /\ SubSeq(events', 1, Len(events)) = events
        /\ IF NewRaw.type = "keyup"
           THEN /\ Added \in { 1, 2 }
                /\ Added = 2 => /\ events'[Len(events) + 1].type = "CharEvent"
                                /\ events'[Len(events) + 2].type = "KeyUp"
           ELSE Added <= 1 ]_vars

\* C18, amended: one raw input appends at most one event, with two exceptions:
\* a web key release may append a CharEvent and then a KeyUp, and a web drop
\* appends one FileDropped per file dropped.
C18_EventsPerRawInput ==
  [][ RawDelivered =>
        /\ SubSeq(events', 1, Len(events)) = events
        /\ CASE NewRaw.type = "keyup" ->
                  /\ Added \in { 1, 2 }
                  /\ Added = 2 => /\ events'[Len(events) + 1].type = "CharEvent"
                                  /\ events'[Len(events) + 2].type = "KeyUp"
             [] NewRaw.type = "drop" ->
                  /\ Added = Len(NewRaw.files)
                  /\ \A i \in 1..Added : events'[Len(events) + i].type = "FileDropped"
             [] OTHER -> Added <= 1 ]_vars

C18_Witness ==
  /\ backend = "web" /\ Len(pending_raw) = 2
  /\ pending_raw[1].raw.type = "keyup" /\ pending_raw[2].raw.type = "drop"
  /\ Len(pending_raw[2].raw.files) = 2 /\ Len(events) = 4
  /\ events[1].type = "CharEvent" /\ events[4].type = "FileDropped"

\* C22: on the web backend a key release whose label is one character appends
\* a CharEvent with that character and then the KeyUp of the key; a release
\* with a longer label appends the KeyUp only; a key press appends the KeyDown
\* only.
C22_KeyUpCharThenKeyUp ==
  [][ (backend = "web" /\ RawDelivered /\ NewRaw.type \in { "keyup", "keydown" }) =>
        LET k == NewRaw.k
            f == NewRaw.flags
            n == Len(events)
        IN CASE NewRaw.type = "keyup" /\ Len(k.key) = 1 ->
                  /\ Added = 2
                  /\ events'[n + 1] = CharEvent(k.key[1])
                  /\ events'[n + 2] = KeyUp(k.key, k.code, f.shift, f.alt, f.ctrl)
             [] NewRaw.type = "keyup" /\ Len(k.key) # 1 ->
                  /\ Added = 1
                  /\ events'[n + 1] = KeyUp(k.key, k.code, f.shift, f.alt, f.ctrl)
             [] NewRaw.type = "keydown" ->
                  /\ Added = 1
                  /\ events'[n + 1] = KeyDown(k.key, k.code, f.shift, f.alt, f.ctrl) ]_vars

\* --------------------------------------------------------------- native window

\* the video modes of the monitor that are at least as wide and as high as requested
Qualifying ==
  { monitor[i] : i \in { j \in DOMAIN monitor :
       monitor[j][1] >= config.size[1] /\ monitor[j][2] >= config.size[2] } }
Area(mode) == mode[1] * mode[2]

\* C16: App::new makes a headless context if config.headless; else, if
\* config.fullscreen, a window fullscreen in a video mode of smallest area
\* among those at least as wide and as high as requested (1920x1080 out of
\* 1920x1080, 2560x1440 and 1920x1200 for a 1920x1080 request), or a plain
\* window if no mode qualifies; else a plain window.
C16_ConstructionPriority ==
  (backend = "native" /\ pc = "init") =>
     /\ config.headless => (window = "Headless" /\ fs_mode = NoMode)
     /\ (~config.headless /\ config.fullscreen /\ Qualifying # { }) =>
           /\ window = "Normal"
           /\ fs_mode \in Qualifying
           /\ \A mode \in Qualifying : Area(fs_mode) <= Area(mode)
     /\ (~config.headless /\ (~config.fullscreen \/ Qualifying = { })) =>
           (window = "Normal" /\ fs_mode = NoMode)
     /\ (~config.headless /\ config.fullscreen /\ config.size = <<1920, 1080>>
           /\ Qualifying = { <<1920, 1080>>, <<2560, 1440>>, <<1920, 1200>> }) =>
           fs_mode = <<1920, 1080>>

C16_Witness ==
  /\ backend = "native" /\ pc = "init"
  /\ ~config.headless /\ config.fullscreen /\ config.size = <<1920, 1080>>
  /\ monitor = << <<2560, 1440>>, <<1920, 1200>>, <<1920, 1080>> >>
  /\ window = "Normal" /\ fs_mode = <<1920, 1080>>

\* C20: with a headless context hidpi_factor() returns 1.0 whatever the scale
\* of the monitor, set_fullscreen leaves the window as it is, and presenting
\* the surface at the end of a frame changes nothing and never fails.
C20_HeadlessIsInert ==
  (backend = "native" /\ config.headless) =>
     /\ window = "Headless"
     /\ hidpi \in { 0, 100 }
     /\ hidpi_factor(window, scale_factor) = 100
     /\ fs_mode = NoMode
     /\ swapped = FALSE
     /\ proc # "panic"

C20_Witness ==
  /\ backend = "native" /\ config.headless /\ pc = "wait"
  /\ scale_factor = 200 /\ hidpi = 100
  /\ config.fullscreen /\ Qualifying # { }
  /\ presented /\ fs_mode = NoMode

\* ------------------------------------------------------------------ web loop

\* C19: once run was called, a tick enters the callback and uses up the one
\* request there is; when the callback returns, also after exit() was called
\* in it, the queue is cleared and one request for the next tick is made, so
\* there is never more than one request; and with ticks delivered and the
\* callback returning, the callback is entered again and again.
C19_LoopKeepsTicking ==
  /\ [](backend = "web" => raf <= 1)
  /\ [][ backend = "web" =>
           /\ (pc = "wait" /\ pc' = "callback") => (raf = 1 /\ raf' = 0)
           /\ (pc = "callback" /\ pc' = "callback") => raf' = raf
           /\ (pc = "callback" /\ pc' # "callback") =>
                 (pc' = "wait" /\ events' = << >> /\ raf' = 1) ]_vars
  /\ [](pc = "wait" => <>(pc = "callback"))
  /\ [](pc = "callback" => <>(pc = "wait"))

C19_Witness ==
  /\ backend = "web" /\ pc = "callback" /\ exit_called /\ shown /\ raf = 0
  /\ events # << >>

\* ----------------------------------------------------------------- native loop

\* C21: on the native backend with intercept_close_request a raw
\* CloseRequested leaves the loop running and the callback entered for it
\* sees the CloseRequested event; without intercept_close_request no callback
\* ever sees a CloseRequested event in the queue.
C21_CloseRequestSeenOnlyIfIntercepted ==
  (backend = "native" /\ pc = "callback") =>
     /\ (config.intercept_close_request /\ LastRaw.raw.type = "CloseRequested") =>
           (events[Len(events)] = CloseRequested /\ control_flow # "Exit")
     /\ ~config.intercept_close_request =>
           \A i \in DOMAIN events : events[i] # CloseRequested

\* C23: on the native backend the queue a callback sees holds at most one
\* event, the translation of the raw event the callback was entered for, and
\* is empty if that raw event translates to nothing.
C23_CallbackSeesAtMostOneEvent ==
  (backend = "native" /\ pc = "callback") =>
     /\ Len(events) <= 1
     /\ events = CanonicalOf(LastRaw)

====
